---- MODULE Spec2Model ----
(***************************************************************************)
(* Model of chessbot.py: the ChessAI value table (q_table), the policy     *)
(* choose_move, the credit assignment learn, the pickle persistence        *)
(* save_brain / load_brain, and the session driver play_game.              *)
(*                                                                         *)
(* Python dicts are modelled as sequences of items [k, v] with distinct    *)
(* keys, in insertion order.  Python floats are modelled as exact          *)
(* rationals <<numerator, denominator>> in lowest terms.                   *)
(***************************************************************************)
EXTENDS Integers, Sequences, FiniteSets, TLC

\* ------------------------------------------------------------------ bounds
\* longest trajectory handed to learn by a direct caller
MaxHist == 2
\* total number of trajectory entries handed to learn over one behaviour
MaxUpdates == 2
\* number of play_game sessions run one after another on the same file
MaxGames == 3

\* --------------------------------------------------------------- rationals
Abs(n) == IF n < 0 THEN -n ELSE n
Min(a, b) == IF a < b THEN a ELSE b
Max(a, b) == IF a < b THEN b ELSE a

RECURSIVE GCD(_, _)
GCD(a, b) == IF b = 0 THEN a ELSE GCD(b, a % b)

Rat(n, d) ==
    LET g == GCD(Abs(n), Abs(d))
        s == IF d < 0 THEN -1 ELSE 1
    IN  <<(s * n) \div g, (s * d) \div g>>

RAdd(x, y) == Rat(x[1] * y[2] + y[1] * x[2], x[2] * y[2])
RSub(x, y) == Rat(x[1] * y[2] - y[1] * x[2], x[2] * y[2])
RMul(x, y) == Rat(x[1] * y[1], x[2] * y[2])
RLess(x, y) == x[1] * y[2] < y[1] * x[2]

RECURSIVE RPow(_, _)
RPow(x, k) == IF k = 0 THEN <<1, 1>> ELSE RMul(x, RPow(x, k - 1))

Zero == <<0, 1>>

\* ------------------------------------------------------------ Python dicts
EmptyDict == <<>>

Keys(d) == {d[i].k : i \in 1..Len(d)}

Has(d, key) == \E i \in 1..Len(d) : d[i].k = key

\* d[key]; only used where Has(d, key)
Get(d, key) == d[CHOOSE i \in 1..Len(d) : d[i].k = key].v

\* d[key] = val : overwrite in place, or append a new item
Put(d, key, val) ==
    IF Has(d, key)
    THEN [i \in 1..Len(d) |-> IF d[i].k = key THEN [k |-> key, v |-> val] ELSE d[i]]
    ELSE Append(d, [k |-> key, v |-> val])

\* ------------------------------------------------------------ rules engine
\* A small fixed game stands for the chess library: positions, the side to
\* move, the legal moves in generation order, the position a move leads to,
\* the result and the pieces on the board.
Positions == {"w0", "b1", "b2", "w1", "w2", "b3", "tB", "tM", "tD", "tW"}

Mv(f, t) == [from_square |-> f, to_square |-> t]

\* move.uci() and chess.Move.from_uci
uci(m) == <<m.from_square, m.to_square>>
from_uci_swapped(u) == [from_square |-> u[2], to_square |-> u[1]]
from_uci(u) == [from_square |-> u[1], to_square |-> u[2]]

mA == Mv("e7", "e5")
mB == Mv("d7", "d5")
mC == Mv("g8", "f6")

\* board.turn
turn(p) == IF p \in {"w0", "w1", "w2"} THEN "WHITE" ELSE "BLACK"

\* list(board.legal_moves)
legal_moves(p) ==
    CASE p = "b1" -> <<mA, mB>>
      [] p = "b2" -> <<mB, mC>>
      [] p = "b3" -> <<mA, mC>>
      [] p = "w0" -> <<Mv("e2", "e4"), Mv("d2", "d4")>>
      [] p = "w1" -> <<Mv("e4", "d5"), Mv("d1", "h5")>>
      [] p = "w2" -> <<Mv("e4", "d5")>>
      [] OTHER -> <<>>

\* the position after board.push(m)
push(p, m) ==
    CASE p = "w0" /\ m = Mv("e2", "e4") -> "b1"
      [] p = "w0" /\ m = Mv("d2", "d4") -> "b2"
      [] p = "b1" /\ m = mA -> "w2"
      [] p = "b1" /\ m = mB -> "w1"
      [] p = "b2" /\ m = mB -> "w2"
      [] p = "b2" /\ m = mC -> "tM"
      [] p = "w1" /\ m = Mv("e4", "d5") -> "b3"
      [] p = "w1" /\ m = Mv("d1", "h5") -> "tW"
      [] p = "w2" /\ m = Mv("e4", "d5") -> "b3"
      [] p = "b3" /\ m = mA -> "tD"
      [] p = "b3" /\ m = mC -> "tB"
      [] OTHER -> p

\* board.is_game_over() and board.result()
is_game_over(p) == p \in {"tB", "tM", "tD", "tW"}
result(p) ==
    CASE p \in {"tB", "tM"} -> "0-1"
      [] p = "tW" -> "1-0"
      [] p = "tD" -> "1/2-1/2"
      [] OTHER -> "*"

\* board.fen(): the two routes into b3 give the same position
fen(p) ==
    CASE p = "b1" -> "s1"
      [] p = "b2" -> "s2"
      [] p = "b3" -> "s3"
      [] OTHER -> p

\* board.piece_at over chess.SQUARES: the piece types on the board, by colour
Full == <<"Q", "N", "P", "K">>
pieces(p) ==
    CASE p = "b3" -> [BLACK |-> <<"Q", "N", "K">>, WHITE |-> Full]
      [] p = "tD" -> [BLACK |-> <<"Q", "N", "K">>, WHITE |-> <<"Q", "N", "K">>]
      [] p = "tB" -> [BLACK |-> <<"Q", "N", "K">>, WHITE |-> <<"N", "P", "K">>]
      [] OTHER -> [BLACK |-> Full, WHITE |-> Full]

\* ------------------------------------------------------------ ChessAI
learning_rate == <<1, 2>>
discount_factor == <<9, 10>>
epsilon == <<2, 10>>

piece_values(t) ==
    CASE t = "P" -> 1
      [] t = "N" -> 3
      [] t = "B" -> 3
      [] t = "R" -> 5
      [] t = "Q" -> 9
      [] OTHER -> 0

get_state(board) == fen(board)

RECURSIVE SumValues(_)
SumValues(s) == IF s = <<>> THEN 0 ELSE piece_values(Head(s)) + SumValues(Tail(s))

get_material_score(board) ==
    SumValues(pieces(board).BLACK) - SumValues(pieces(board).WHITE)

\* {move.uci(): 0.0 for move in legal_moves}
NewRow(legal) == [i \in 1..Len(legal) |-> [k |-> uci(legal[i]), v |-> Zero]]

\* lines 45-46: the row of a fingerprint is created only when it is absent
InitRow_reset(table, state, legal) ==
    IF Has(table, state)
    THEN [i \in 1..Len(table) |->
            IF table[i].k = state THEN [k |-> state, v |-> NewRow(legal)] ELSE table[i]]
    ELSE Append(table, [k |-> state, v |-> NewRow(legal)])
InitRow(table, state, legal) ==
    IF ~Has(table, state) THEN Put(table, state, NewRow(legal)) ELSE table

\* max(state_moves, key=state_moves.get): the first key whose value no
\* other key exceeds
ArgMax_last(row) ==
    row[CHOOSE i \in 1..Len(row) :
          /\ \A j \in 1..Len(row) : ~RLess(row[i].v, row[j].v)
          /\ \A j \in (i + 1)..Len(row) : RLess(row[j].v, row[i].v)].k
ArgMax(row) ==
    row[CHOOSE i \in 1..Len(row) :
          /\ \A j \in 1..Len(row) : ~RLess(row[i].v, row[j].v)
          /\ \A j \in 1..(i - 1) : RLess(row[j].v, row[i].v)].k

\* choose_move(board) on a q_table that is a dict; u is the value of
\* random.random(), pick the index random.choice draws
choose_move(table, board, u, pick) ==
    LET state == get_state(board)
        legal == legal_moves(board)
        t1 == InitRow(table, state, legal)
    IN  IF RLess(u, epsilon)
        THEN IF legal = <<>>
             THEN [table |-> t1, ret |-> "none", exc |-> "IndexError", explored |-> TRUE]
             ELSE [table |-> t1, ret |-> legal[pick], exc |-> "none", explored |-> TRUE]
        ELSE IF Get(t1, state) = <<>>
             THEN [table |-> t1, ret |-> "none", exc |-> "ValueError", explored |-> FALSE]
             ELSE [table |-> t1, ret |-> from_uci(ArgMax(Get(t1, state))),
                   exc |-> "none", explored |-> FALSE]

\* line 65
Discount(reward) == RMul(reward, discount_factor)

\* line 64
Blend(old, total) == RAdd(old, RMul(learning_rate, RSub(total, old)))

\* lines 59-64: one trajectory entry e = <<state, move_uci, step_reward>>
LearnEntry_allrow(table, e, reward) ==
    LET t1 == IF ~Has(table, e[1]) THEN Put(table, e[1], <<[k |-> e[2], v |-> Zero]>>)
              ELSE table
        row == Get(t1, e[1])
        total == RAdd(e[3], reward)
    IN  IF ~Has(row, e[2])
        THEN [table |-> t1, exc |-> "KeyError"]
        ELSE [table |-> Put(t1, e[1],
                            [i \in 1..Len(row) |->
                               [k |-> row[i].k, v |-> Blend(row[i].v, total)]]),
              exc |-> "none"]
LearnEntry_wipe(table, e, reward) ==
    LET total == RAdd(e[3], reward)
    IN  [table |-> Put(table, e[1], <<[k |-> e[2], v |-> RMul(learning_rate, total)]>>),
         exc |-> "none"]
LearnEntry(table, e, reward) ==
    LET state == e[1]
        move_uci == e[2]
        t1 == IF ~Has(table, state)
              THEN Put(table, state, <<[k |-> move_uci, v |-> Zero]>>)
              ELSE table
        row == Get(t1, state)
        total == RAdd(e[3], reward)
    IN  IF ~Has(row, move_uci)
        THEN [table |-> t1, exc |-> "KeyError"]
        ELSE [table |-> Put(t1, state, Put(row, move_uci, Blend(Get(row, move_uci), total))),
              exc |-> "none"]

\* lines 57-65: entries history[i], history[i-1], ..., history[1] in turn;
\* done counts the entries updated before the loop ended or raised
RECURSIVE LearnLoop(_, _, _, _, _)
LearnLoop(table, history, i, reward, done) ==
    IF i = 0
    THEN [table |-> table, exc |-> "none", done |-> done]
    ELSE LET r == LearnEntry(table, history[i], reward)
         IN  IF r.exc # "none"
             THEN [table |-> r.table, exc |-> r.exc, done |-> done]
             ELSE LearnLoop(r.table, history, i - 1, Discount(reward), done + 1)

learn(table, history, final_reward) ==
    LearnLoop(table, history, Len(history), final_reward, 0)

\* ------------------------------------------------------------------ pickle
\* pickle.dump writes a dict as EMPTY_DICT, then (when it has items) MARK,
\* every key and value in order, SETITEMS; the stream ends with STOP.
\* depth 0 is q_table (values are rows), depth 1 a row (values are floats).
Tok(t, x) == [t |-> t, x |-> x]
Op(t) == [t |-> t, x |-> <<>>]

RECURSIVE DumpDict(_, _)
RECURSIVE DumpItems(_, _, _)
DumpItems(d, i, depth) ==
    IF i > Len(d) THEN <<>>
    ELSE <<Tok("STR", d[i].k)>>
         \o (IF depth = 0 THEN DumpDict(d[i].v, 1) ELSE <<Tok("FLOAT", d[i].v)>>)
         \o DumpItems(d, i + 1, depth)
DumpDict(d, depth) ==
    IF d = <<>> THEN <<Op("EMPTY_DICT")>>
    ELSE <<Op("EMPTY_DICT"), Op("MARK")>> \o DumpItems(d, 1, depth) \o <<Op("SETITEMS")>>

\* pickle.dumps(q_table) for a q_table that is a dict
Dumps_lossy(table) == DumpDict(SubSeq(table, 1, Len(table) - 1), 0) \o <<Op("STOP")>>
Dumps(table) == DumpDict(table, 0) \o <<Op("STOP")>>

\* pickles of objects that are no value table: a list, an int
ListBlob == <<Op("EMPTY_LIST"), Op("STOP")>>
IntBlob == <<Op("BININT"), Op("STOP")>>

\* index of the topmost MARK on the unpickler's stack, 0 when there is none
TopMark(stack) ==
    IF \E i \in 1..Len(stack) : stack[i].t = "mark"
    THEN CHOOSE i \in 1..Len(stack) :
            /\ stack[i].t = "mark"
            /\ \A j \in (i + 1)..Len(stack) : stack[j].t # "mark"
    ELSE 0

\* SETITEMS: the items above the mark go, pairwise, into the dict below it
RECURSIVE SetItems(_, _, _)
SetItems(d, items, i) ==
    IF i > Len(items) THEN d
    ELSE SetItems(Put(d, items[i].x, items[i + 1].x), items, i + 2)

UnpickleFailed == [ok |-> FALSE, type |-> "none", value |-> <<>>]

\* the unpickler's loop over the opcodes from position i
RECURSIVE Unpickle(_, _, _)
Unpickle(bytes, i, stack) ==
    IF i > Len(bytes) THEN UnpickleFailed
    ELSE LET tok == bytes[i] IN
         CASE tok.t = "STOP" ->
                  IF stack = <<>> \/ stack[Len(stack)].t = "mark" THEN UnpickleFailed
                  ELSE [ok |-> TRUE, type |-> stack[Len(stack)].t,
                        value |-> stack[Len(stack)].x]
           [] tok.t = "EMPTY_DICT" -> Unpickle(bytes, i + 1, Append(stack, Tok("dict", <<>>)))
           [] tok.t = "EMPTY_LIST" -> Unpickle(bytes, i + 1, Append(stack, Tok("list", <<>>)))
           [] tok.t = "BININT" -> Unpickle(bytes, i + 1, Append(stack, Tok("int", <<>>)))
           [] tok.t = "MARK" -> Unpickle(bytes, i + 1, Append(stack, Tok("mark", <<>>)))
           [] tok.t = "STR" -> Unpickle(bytes, i + 1, Append(stack, Tok("str", tok.x)))
           [] tok.t = "FLOAT" -> Unpickle(bytes, i + 1, Append(stack, Tok("float", tok.x)))
           [] tok.t = "SETITEMS" ->
                  LET m == TopMark(stack)
                      items == SubSeq(stack, m + 1, Len(stack))
                  IN  IF m < 2 \/ stack[Max(1, m - 1)].t # "dict" \/ Len(items) % 2 = 1
                      THEN UnpickleFailed
                      ELSE Unpickle(bytes, i + 1,
                               Append(SubSeq(stack, 1, m - 2),
                                      Tok("dict", SetItems(stack[m - 1].x, items, 1))))
           [] OTHER -> UnpickleFailed

\* pickle.load(f)
Loads(bytes) == Unpickle(bytes, 1, <<>>)

\* lines 67-69: open(filename, 'wb') fails on a file the process may not
\* open; otherwise the file holds the pickle of q_table
save_brain(table, foreign, file) ==
    IF file.exists /\ ~file.readable
    THEN [disk |-> file, exc |-> "PermissionError"]
    ELSE [disk |-> [exists |-> TRUE, readable |-> TRUE,
                    bytes |-> IF foreign THEN ListBlob ELSE Dumps(table)],
          exc |-> "none"]

\* lines 73-79: every exception of open, pickle.load and len is swallowed
load_brain(table, foreign, file) ==
    IF ~file.exists THEN [table |-> table, foreign |-> foreign]
    ELSE IF ~file.readable THEN [table |-> EmptyDict, foreign |-> FALSE]
    ELSE LET r == Loads(file.bytes)
         IN  IF ~r.ok THEN [table |-> EmptyDict, foreign |-> FALSE]
             ELSE IF r.type = "dict" THEN [table |-> r.value, foreign |-> FALSE]
             ELSE IF r.type = "int" THEN [table |-> EmptyDict, foreign |-> FALSE]
             ELSE [table |-> EmptyDict, foreign |-> TRUE]

\* ------------------------------------------------------------------ state
VARIABLES
    q_table,    \* ChessAI.q_table when it is a dict: fingerprint -> row
    q_foreign,  \* TRUE when q_table holds an unpickled object that is no dict
    disk,       \* the file named by ChessAI.filename
    snapshot,   \* the table written by the last save_brain, while the file is intact
    call,       \* the last call or event and its outcome
    updates,    \* trajectory entries handed to learn so far by direct callers
    returned,   \* the (fingerprint, action) pairs choose_move has returned
    pc,         \* position of play_game
    board,      \* play_game's board
    history,    \* play_game's history
    loaded,     \* q_table as it was when the running session had constructed ai
    games       \* sessions started so far

vars == <<q_table, q_foreign, disk, snapshot, call, updates, returned,
          pc, board, history, loaded, games>>

gameVars == <<pc, board, history, loaded, games>>

NoFile == [exists |-> FALSE, readable |-> FALSE, bytes |-> <<>>]

NoSnapshot == [valid |-> FALSE, table |-> EmptyDict]

NoCall == [op |-> "none", board |-> "none", history |-> <<>>, final_reward |-> Zero,
           before |-> EmptyDict, ret |-> "none", exc |-> "none",
           explored |-> FALSE, done |-> 0]

\* ----------------------------------------------------- inputs of the calls
\* boards a direct caller hands to choose_move: two positions with Black to
\* move and one finished game
Boards == {"b1", "b2", "tD"}

\* positions with Black to move and the game not over
OpenBoards == {"b1", "b2"}

\* values random.random() returns
RandomDraws == {<<1, 10>>, <<1, 5>>}

\* trajectory entries a direct caller hands to learn
Entries ==
    {<<"s1", uci(mA), <<1, 10>>>>, <<"s1", uci(mB), <<-1, 5>>>>,
     <<"s2", uci(mA), <<1, 10>>>>, <<"s2", uci(mB), <<-1, 5>>>>}

\* entries whose (fingerprint, action) choose_move has returned
ReturnedEntries == {<<x[1], x[2], <<1, 10>>>> : x \in returned}

\* final rewards a direct caller hands to learn: a win and a loss
FinalRewards == {<<1, 1>>, <<-1, 1>>}

RECURSIVE Histories(_, _)
Histories(E, n) ==
    IF n = 0 THEN {<<>>}
    ELSE Histories(E, n - 1) \cup
         {Append(h, e) : h \in {x \in Histories(E, n - 1) : Len(x) = n - 1}, e \in E}

\* ---------------------------------------------------------------- actions
Init ==
    /\ q_table = EmptyDict
    /\ q_foreign = FALSE
    /\ disk = NoFile
    /\ snapshot = NoSnapshot
    /\ call = NoCall
    /\ updates = 0
    /\ returned = {}
    /\ pc = "idle"
    /\ board = "w0"
    /\ history = <<>>
    /\ loaded = EmptyDict
    /\ games = 0

\* ai.choose_move(b) for a board b of B
ChooseMoveOn(B) ==
    \E b \in B, u \in RandomDraws :
      \E pick \in 1..(IF RLess(u, epsilon) THEN Max(1, Len(legal_moves(b))) ELSE 1) :
        /\ IF q_foreign
           THEN \* q_table[state] = {...} raises on an object that is no dict
                /\ call' = [NoCall EXCEPT !.op = "choose_move", !.board = b,
                                          !.exc = "TypeError"]
                /\ UNCHANGED q_table
           ELSE LET r == choose_move(q_table, b, u, pick)
                IN  /\ q_table' = r.table
                    /\ call' = [NoCall EXCEPT !.op = "choose_move", !.board = b,
                                              !.before = q_table, !.ret = r.ret,
                                              !.exc = r.exc, !.explored = r.explored]
        /\ UNCHANGED <<q_foreign, disk, snapshot, updates, gameVars>>

\* ai.learn(h, R) for a trajectory h over the entries E and R of F
LearnFrom(E, F) ==
    \E h \in Histories(E, Min(MaxHist, MaxUpdates - updates)), R \in F :
        /\ updates' = updates + Len(h)
        /\ IF q_foreign /\ h # <<>>
           THEN /\ call' = [NoCall EXCEPT !.op = "learn", !.history = h,
                                          !.final_reward = R, !.exc = "TypeError"]
                /\ UNCHANGED q_table
           ELSE LET r == learn(q_table, h, R)
                IN  /\ q_table' = r.table
                    /\ call' = [NoCall EXCEPT !.op = "learn", !.history = h,
                                              !.final_reward = R, !.before = q_table,
                                              !.exc = r.exc, !.done = r.done]
        /\ UNCHANGED <<q_foreign, disk, snapshot, returned, gameVars>>

ChooseMove == ChooseMoveOn(Boards) /\ UNCHANGED returned

Learn == LearnFrom(Entries, FinalRewards)

Next == ChooseMove \/ Learn

\* the ChessAI object used directly: any board, any trajectory
Spec == Init /\ [][Next]_vars

\* ------------------------------------------- choose_move's own trajectories
PolicyChooseMove ==
    /\ ChooseMoveOn(OpenBoards)
    /\ returned' = IF call'.exc = "none"
                   THEN returned \cup {<<get_state(call'.board), uci(call'.ret)>>}
                   ELSE returned

PolicyLearn == LearnFrom(ReturnedEntries, FinalRewards)

NextPolicy == PolicyChooseMove \/ PolicyLearn

\* choose_move on open positions, learn on what choose_move returned
SpecPolicy == Init /\ [][NextPolicy]_vars

\* ------------------------------------------------------------- persistence
\* what another process or the operator can leave in the file
ExternalFiles(file) ==
    {NoFile,
     [exists |-> TRUE, readable |-> FALSE, bytes |-> file.bytes],
     [exists |-> TRUE, readable |-> TRUE,
      bytes |-> SubSeq(file.bytes, 1, Len(file.bytes) - 1)],
     [exists |-> TRUE, readable |-> TRUE, bytes |-> ListBlob],
     [exists |-> TRUE, readable |-> TRUE, bytes |-> IntBlob]}

ExternalWrite ==
    \E f \in ExternalFiles(disk) :
        /\ f # disk
        /\ disk' = f
        /\ snapshot' = NoSnapshot
        /\ call' = [NoCall EXCEPT !.op = "external_write"]
        /\ UNCHANGED <<q_table, q_foreign, updates, returned, gameVars>>

\* ai = ChessAI(): lines 8-23
Construct ==
    LET r == load_brain(EmptyDict, FALSE, disk)
    IN  /\ q_table' = r.table
        /\ q_foreign' = r.foreign
        /\ call' = [NoCall EXCEPT !.op = "__init__", !.before = q_table]
        /\ UNCHANGED <<disk, snapshot, updates, returned, gameVars>>

\* ai.load_brain()
LoadBrain ==
    LET r == load_brain(q_table, q_foreign, disk)
    IN  /\ q_table' = r.table
        /\ q_foreign' = r.foreign
        /\ call' = [NoCall EXCEPT !.op = "load_brain", !.before = q_table]
        /\ UNCHANGED <<disk, snapshot, updates, returned, gameVars>>

\* ai.save_brain()
SaveBrain ==
    LET r == save_brain(q_table, q_foreign, disk)
    IN  /\ disk' = r.disk
        /\ snapshot' = IF r.exc # "none" THEN snapshot
                       ELSE IF q_foreign THEN NoSnapshot
                       ELSE [valid |-> TRUE, table |-> q_table]
        /\ call' = [NoCall EXCEPT !.op = "save_brain", !.before = q_table,
                                  !.exc = r.exc]
        /\ UNCHANGED <<q_table, q_foreign, updates, returned, gameVars>>

StoreBoards == {"b1", "b2"}

StoreEntries == {<<"s2", uci(mA), <<-1, 5>>>>}

StoreChooseMove == ChooseMoveOn(StoreBoards) /\ UNCHANGED returned

StoreLearn == LearnFrom(StoreEntries, {<<1, 1>>})

NextStore ==
    StoreChooseMove \/ StoreLearn \/ SaveBrain \/ LoadBrain \/ Construct \/ ExternalWrite

\* the object together with its file
SpecStore == Init /\ [][NextStore]_vars

\* ---------------------------------------------------------------- play_game
\* what the operator types at the prompt: the notation of a legal move, or
\* something board.parse_san rejects
Inputs(p) == {uci(legal_moves(p)[i]) : i \in 1..Len(legal_moves(p))} \cup {<<"?", "?">>}

\* the moves of list(board.legal_moves) as a set
LegalSet(p) == {legal_moves(p)[i] : i \in 1..Len(legal_moves(p))}

\* board.parse_san(move_str): the legal move written move_str, or an error
parse_san(p, move_str) ==
    IF \E m \in LegalSet(p) : uci(m) = move_str
    THEN [ok |-> TRUE, move |-> CHOOSE m \in LegalSet(p) : uci(m) = move_str]
    ELSE [ok |-> FALSE, move |-> Mv("?", "?")]

\* lines 118-120
final_reward_of(res) ==
    IF res = "0-1" THEN <<1, 1>> ELSE IF res = "1-0" THEN <<-1, 1>> ELSE Zero

\* lines 82-84, a new process: ai = ChessAI(), a fresh board, no history
PG_Start ==
    /\ pc \in {"idle", "done", "crashed"}
    /\ games < MaxGames
    /\ LET r == load_brain(EmptyDict, FALSE, disk)
       IN  /\ q_table' = r.table
           /\ q_foreign' = r.foreign
           /\ loaded' = r.table
    /\ call' = [NoCall EXCEPT !.op = "__init__"]
    /\ pc' = "loop"
    /\ board' = "w0"
    /\ history' = <<>>
    /\ games' = games + 1
    /\ UNCHANGED <<disk, snapshot, updates, returned>>

\* lines 91-98: one pass of the loop on White's turn
PG_White ==
    /\ pc = "loop" /\ ~is_game_over(board) /\ turn(board) = "WHITE"
    /\ \E move_str \in Inputs(board) :
          IF ~parse_san(board, move_str).ok
          THEN /\ call' = [NoCall EXCEPT !.op = "invalid_input"]
               /\ UNCHANGED board
          ELSE /\ call' = [NoCall EXCEPT !.op = "input"]
               /\ board' = push(board, parse_san(board, move_str).move)
    /\ UNCHANGED <<q_table, q_foreign, disk, snapshot, updates, returned,
                   pc, history, loaded, games>>

\* lines 99-113: one pass of the loop on Black's turn.  A move that is not
\* legal on the board makes board.push fail.
PG_Black ==
    /\ pc = "loop" /\ ~is_game_over(board) /\ turn(board) = "BLACK"
    /\ \E u \in RandomDraws :
        \E pick \in 1..(IF RLess(u, epsilon) THEN Max(1, Len(legal_moves(board))) ELSE 1) :
          IF q_foreign
          THEN /\ call' = [NoCall EXCEPT !.op = "choose_move", !.board = board,
                                         !.exc = "TypeError"]
               /\ pc' = "crashed"
               /\ UNCHANGED <<q_table, board, history>>
          ELSE LET state == get_state(board)
                   old_score == get_material_score(board)
                   r == choose_move(q_table, board, u, pick)
                   ok == r.exc = "none" /\ r.ret \in LegalSet(board)
                   after == IF ok THEN push(board, r.ret) ELSE board
                   new_score == get_material_score(after)
                   step_reward == Rat(new_score - old_score, 10)
               IN  /\ q_table' = r.table
                   /\ call' = [NoCall EXCEPT !.op = "choose_move", !.board = board,
                                             !.before = q_table, !.ret = r.ret,
                                             !.exc = IF r.exc = "none" /\ ~ok
                                                     THEN "AssertionError" ELSE r.exc,
                                             !.explored = r.explored]
                   /\ board' = after
                   /\ pc' = IF ok THEN "loop" ELSE "crashed"
                   /\ history' = IF ok
                                 THEN Append(history, <<state, uci(r.ret), step_reward>>)
                                 ELSE history
    /\ UNCHANGED <<q_foreign, disk, snapshot, updates, returned, loaded, games>>

\* lines 115-122, run when the loop is left
PG_LearnWhen(left) ==
    /\ pc = "loop" /\ left
    /\ IF q_foreign /\ history # <<>>
       THEN /\ call' = [NoCall EXCEPT !.op = "learn", !.history = history,
                                      !.final_reward = final_reward_of(result(board)),
                                      !.exc = "TypeError"]
            /\ pc' = "crashed"
            /\ UNCHANGED q_table
       ELSE LET r == learn(q_table, history, final_reward_of(result(board)))
            IN  /\ q_table' = r.table
                /\ call' = [NoCall EXCEPT !.op = "learn", !.history = history,
                                          !.final_reward = final_reward_of(result(board)),
                                          !.before = q_table, !.exc = r.exc,
                                          !.done = r.done]
                /\ pc' = IF r.exc = "none" THEN "save" ELSE "crashed"
    /\ UNCHANGED <<q_foreign, disk, snapshot, updates, returned, board, history,
                   loaded, games>>

PG_Learn_anytime == PG_LearnWhen(TRUE)
\* line 88: the loop is left when the game is over
PG_Learn == PG_LearnWhen(is_game_over(board))

\* line 123
PG_Save ==
    /\ pc = "save"
    /\ LET r == save_brain(q_table, q_foreign, disk)
       IN  /\ disk' = r.disk
           /\ snapshot' = IF r.exc # "none" THEN snapshot
                          ELSE IF q_foreign THEN NoSnapshot
                          ELSE [valid |-> TRUE, table |-> q_table]
           /\ call' = [NoCall EXCEPT !.op = "save_brain", !.before = q_table,
                                     !.exc = r.exc]
           /\ pc' = IF r.exc = "none" THEN "done" ELSE "crashed"
    /\ UNCHANGED <<q_table, q_foreign, updates, returned, board, history, loaded, games>>

NextGame == PG_Start \/ PG_White \/ PG_Black \/ PG_Learn \/ PG_Save

\* play_game run MaxGames times on the same file
SpecGame == Init /\ [][NextGame]_vars

\* ------------------------------------------------------------------ claims
\* the value stored for (s, a), 0.0 when there is none
ValueAt(table, s, a) ==
    IF Has(table, s) /\ Has(Get(table, s), a) THEN Get(Get(table, s), a) ELSE Zero

Stored(table, s, a) == Has(table, s) /\ Has(Get(table, s), a)

\* the (fingerprint, action) pairs with a stored value
PairKeys(table) ==
    UNION {{<<table[i].k, table[i].v[j].k>> : j \in 1..Len(table[i].v)} : i \in 1..Len(table)}

HistoryPairs(h) == {<<h[i][1], h[i][2]>> : i \in 1..Len(h)}

\* the value of (s, a) after the entries h[Len(h)], ..., h[lo] have been
\* credited in that order, entry i with final_reward * discount_factor^(Len(h) - i)
RECURSIVE Credited(_, _, _, _, _, _, _)
Credited(v, h, i, lo, s, a, R) ==
    IF i < lo THEN v
    ELSE IF h[i][1] = s /\ h[i][2] = a
         THEN LET target == RAdd(h[i][3], RMul(R, RPow(discount_factor, Len(h) - i)))
              IN  Credited(RAdd(v, RMul(learning_rate, RSub(target, v))), h, i - 1, lo, s, a, R)
         ELSE Credited(v, h, i - 1, lo, s, a, R)

AllZero(table) ==
    \A i \in 1..Len(table) : \A j \in 1..Len(table[i].v) : table[i].v[j].v = Zero

ExampleHistory == <<<<"s1", uci(mA), <<1, 10>>>>, <<"s2", uci(mB), <<-1, 5>>>>>>

\* the pairs of h are credited as C1 says, from entry lo to the last one
CreditedFrom(h, lo) ==
    \A i \in lo..Len(h) :
        /\ Stored(q_table, h[i][1], h[i][2])
        /\ ValueAt(q_table, h[i][1], h[i][2]) =
              Credited(ValueAt(call.before, h[i][1], h[i][2]),
                       h, Len(h), lo, h[i][1], h[i][2], call.final_reward)

\* C1: learn credits the trajectory from its last entry to its first; the
\* entry k steps before the end moves its stored value v to
\* v + learning_rate * ((step_reward + final_reward * discount_factor^k) - v),
\* v being the value stored when the entry is reached.  From an all-zero
\* table, two distinct pairs [(s1,a1,r1),(s2,a2,r2)] end at
\* learning_rate * (r2 + R) and learning_rate * (r1 + R * discount_factor):
\* 0.4 and 0.5 for rewards 0.1, -0.2 and R = 1.0.
C1_CreditAssignment ==
    call.op = "learn" =>
        LET h == call.history
        IN  /\ CreditedFrom(h, 1)
            /\ (AllZero(call.before) /\ Len(h) = 2
                  /\ <<h[1][1], h[1][2]>> # <<h[2][1], h[2][2]>>)
               => /\ ValueAt(q_table, h[2][1], h[2][2]) =
                        RMul(learning_rate, RAdd(h[2][3], call.final_reward))
                  /\ ValueAt(q_table, h[1][1], h[1][2]) =
                        RMul(learning_rate,
                             RAdd(h[1][3], RMul(call.final_reward, discount_factor)))

\* The part of C1 that the code keeps: the entries learn reaches before it
\* ends or raises are credited as C1 says, and the worked example of C1
\* (fingerprints s1 and s2 apart) gives 0.4 and 0.5.
LearnCreditsReachedEntries ==
    call.op = "learn" =>
        /\ CreditedFrom(call.history, Len(call.history) - call.done + 1)
        /\ (call.exc = "none" /\ AllZero(call.before) /\ call.history = ExampleHistory
              /\ call.final_reward = <<1, 1>>)
           => /\ ValueAt(q_table, "s2", uci(mB)) = <<2, 5>>
              /\ ValueAt(q_table, "s1", uci(mA)) = <<1, 2>>

ExampleCredited ==
    /\ call.op = "learn" /\ call.exc = "none" /\ call.done = 2
    /\ call.before = EmptyDict
    /\ call.history = ExampleHistory /\ call.final_reward = <<1, 1>>
    /\ ValueAt(q_table, "s2", uci(mB)) = <<2, 5>>
    /\ ValueAt(q_table, "s1", uci(mA)) = <<1, 2>>

\* C2: learn tolerates every trajectory entry on every table: an absent
\* fingerprint gets a row holding only the action at 0.0, a present row
\* lacking the action gets the action at 0.0, and learn ends without error.
C2_LearnInsertsMissingAction ==
    call.op = "learn" =>
        /\ call.exc = "none"
        /\ \A i \in 1..Len(call.history) :
              Stored(q_table, call.history[i][1], call.history[i][2])

\* C3: choose_move creates the row of an absent fingerprint with exactly
\* the legal actions as keys, all 0.0, and leaves the row of a present
\* fingerprint, its keys and its values, as they are.
C3_RowInitialization ==
    call.op = "choose_move" =>
        LET state == get_state(call.board)
            legal == legal_moves(call.board)
        IN  IF Has(call.before, state)
            THEN q_table = call.before
            ELSE /\ Len(q_table) = Len(call.before) + 1
                 /\ SubSeq(q_table, 1, Len(call.before)) = call.before
                 /\ q_table[Len(q_table)].k = state
                 /\ Keys(Get(q_table, state)) = {uci(m) : m \in LegalSet(call.board)}
                 /\ Len(Get(q_table, state)) = Len(legal)
                 /\ \A a \in Keys(Get(q_table, state)) : ValueAt(q_table, state, a) = Zero

C3_Witness ==
    /\ call.op = "choose_move"
    /\ Has(call.before, get_state(call.board))
    /\ Keys(Get(call.before, get_state(call.board)))
          # {uci(m) : m \in LegalSet(call.board)}
    /\ \E a \in Keys(Get(call.before, get_state(call.board))) :
          ValueAt(call.before, get_state(call.board), a) # Zero
    /\ q_table = call.before

\* C7: a choose_move that does not explore returns an action of the row
\* whose value no other action of the row exceeds, the first inserted one
\* among those tied at the maximum; it fails only on a row without actions.
C7_GreedyFirstMaximum ==
    (call.op = "choose_move" /\ ~call.explored) =>
        LET row == Get(q_table, get_state(call.board))
        IN  IF row = <<>> THEN call.exc = "ValueError"
            ELSE /\ call.exc = "none"
                 /\ \E i \in 1..Len(row) :
                       /\ row[i].k = uci(call.ret)
                       /\ call.ret = from_uci(row[i].k)
                       /\ \A j \in 1..Len(row) : ~RLess(row[i].v, row[j].v)
                       /\ \A j \in 1..(i - 1) : RLess(row[j].v, row[i].v)

C7_Witness ==
    /\ call.op = "choose_move" /\ ~call.explored /\ call.exc = "none"
    /\ LET row == Get(q_table, get_state(call.board))
       IN  /\ Len(row) = 2
           /\ row[1].v = row[2].v
           /\ uci(call.ret) = row[1].k
           /\ ~AllZero(q_table)

\* C8: learn changes the table only at the (fingerprint, action) pairs of
\* its trajectory: every other stored value, every row and every key is
\* kept, and an empty trajectory leaves the table as it was.
C8_LearnFrame ==
    call.op = "learn" =>
        /\ PairKeys(call.before) \subseteq PairKeys(q_table)
        /\ \A x \in PairKeys(q_table) \ HistoryPairs(call.history) :
              /\ x \in PairKeys(call.before)
              /\ ValueAt(q_table, x[1], x[2]) = ValueAt(call.before, x[1], x[2])
        /\ call.history = <<>> => (q_table = call.before /\ call.exc = "none")

C8_Witness ==
    /\ call.op = "learn" /\ call.exc = "none" /\ Len(call.history) = 1
    /\ \E x \in PairKeys(call.before) \ HistoryPairs(call.history) :
          /\ x[1] = call.history[1][1]
          /\ ValueAt(q_table, x[1], x[2]) # Zero
    /\ q_table # call.before

\* C4: constructing a ChessAI never fails and never leaves a non-table in
\* q_table, whatever the file holds: the result is the table that was
\* saved or an empty table.
C4_LoadYieldsSavedOrEmptyTable ==
    call.op = "__init__" =>
        /\ call.exc = "none"
        /\ ~q_foreign
        /\ q_table = EmptyDict \/ (snapshot.valid /\ q_table = snapshot.table)

\* C5: load_brain after a save_brain that succeeded, with the file left
\* alone in between, restores the saved table: the same fingerprints, the
\* same action keys in every row and the same value for every pair.
C5_RoundTrip ==
    (call.op \in {"load_brain", "__init__"} /\ snapshot.valid) =>
        /\ ~q_foreign
        /\ q_table = snapshot.table

C5_Witness ==
    /\ call.op = "load_brain" /\ snapshot.valid
    /\ Len(snapshot.table) = 2
    /\ ~AllZero(snapshot.table)
    /\ call.before # snapshot.table
    /\ q_table = snapshot.table

\* C6: choose_move, learn and save_brain never remove a fingerprint from
\* q_table nor an action key from a row.
C6_TableOnlyGrows ==
    (call.op \in {"choose_move", "learn", "save_brain"} /\ ~q_foreign) =>
        PairKeys(call.before) \cup {<<x>> : x \in Keys(call.before)}
            \subseteq PairKeys(q_table) \cup {<<x>> : x \in Keys(q_table)}

C6_Witness ==
    /\ call.op = "choose_move" /\ call.exc = "none"
    /\ ~AllZero(call.before)
    /\ PairKeys(call.before) # PairKeys(q_table)
    /\ PairKeys(call.before) \subseteq PairKeys(q_table)

\* C9 as stated: while the game is not over, the table is the one loaded
\* when the session started.
C9_TableFrozenDuringPlay ==
    (pc = "loop" /\ ~is_game_over(board)) => q_table = loaded

\* C9 as amended: while the loop of a session runs, every row loaded at the
\* start of the session is unchanged and the only additions are rows of
\* 0.0 that choose_move created; learn runs only once the game is over and
\* ends the loop.
C9_PlayOnlyAddsZeroRows ==
    /\ pc = "loop" =>
          /\ Len(loaded) <= Len(q_table)
          /\ SubSeq(q_table, 1, Len(loaded)) = loaded
          /\ AllZero(SubSeq(q_table, Len(loaded) + 1, Len(q_table)))
    /\ call.op = "learn" => (is_game_over(board) /\ pc \in {"save", "crashed"})

C9_Witness ==
    /\ pc = "loop" /\ ~is_game_over(board)
    /\ ~AllZero(loaded)
    /\ Len(q_table) > Len(loaded)
    /\ call.op = "choose_move"

\* the legal actions of the position whose fingerprint is s
LegalAt(s) == {uci(m) : m \in LegalSet(CHOOSE p \in Positions : fen(p) = s)}

\* C10: from an empty table, with choose_move called on positions that are
\* not over and learn called on pairs choose_move returned, every key of
\* every row is legal at the row's fingerprint, and choose_move returns a
\* legal move without an error in both branches.
C10_OnlyLegalActions ==
    /\ \A x \in PairKeys(q_table) : x[2] \in LegalAt(x[1])
    /\ call.op = "choose_move" =>
          /\ call.exc = "none"
          /\ call.ret \in LegalSet(call.board)
    /\ call.op = "learn" => call.exc = "none"

C10_Witness ==
    /\ call.op = "choose_move" /\ ~call.explored
    /\ ~AllZero(call.before)
    /\ call.ret = legal_moves(call.board)[2]
    /\ call.ret \in LegalSet(call.board)
====
